---- MODULE Spec2Model ----
(***************************************************************************)
(* Model of thinc's foreign-module shim (thinc/shims/pytorch.py), the      *)
(* siamese combinator (thinc/layers/difference.py) and the categorical     *)
(* cross-entropy losses (thinc/loss.py).                                   *)
(*                                                                         *)
(* Numbers are integers.  The wrapped torch module is the one-weight       *)
(* module  output = w * x  with one buffer r (a running statistic that a   *)
(* training-mode forward pass overwrites with its input).  A gradient      *)
(* accumulator that torch holds as None is the integer 0: the optimizers   *)
(* and clip_grad_norm_ treat both alike before any momentum exists.        *)
(* Optimizer coefficients b1, b2 are in tenths (9 is 0.9); lr is 1.        *)
(***************************************************************************)
EXTENDS Integers, Sequences, FiniteSets, TLC

VARIABLES
    \* ---- PyTorchShim and the optimizer object handed to it
    state,        \* self._model.state_dict(): name -> value (parameter w, buffer r)
    grad,         \* .grad of every parameter of self._model
    training,     \* self._model.training
    optKind,      \* self._optimizer: "none", "adam" or "sgd"
    mom,          \* the native optimizer's per-parameter momentum state
    sgd,          \* the thinc optimizer: b1, b2, max_grad_norm
    averages,     \* sgd.averages: none (the field is None), or map: key -> value
    nr_update,    \* sgd.nr_update (a defaultdict(int)): key -> count
    closures,     \* the backprop closures begin_update has returned
    blocks,       \* the use_params blocks currently entered (innermost first)
    lastOp,       \* the operation that ran last
    lastCall,     \* mode and grad-tracking flag of the last module call
    lastTrace,    \* the steps the last finish_update performed, in order
    stepSaw,      \* the gradients the last native optimizer step read
    quiet,        \* a finish_update returned and no begin_update or backprop ran since
    finished,     \* number of finish_update calls that returned
    steps,        \* number of shim operations so far
    \* ---- siamese combinator
    sClosures,    \* the closures siamese forward has returned
    children,     \* the child closures (one per child forward call)
    fwdLog,       \* child forward calls, in call order
    bwdLog,       \* child closure invocations of the last siamese backward
    sRet,         \* result of the last siamese call
    sOp,          \* the siamese operation that ran last
    \* ---- loss functions
    lOp,          \* the loss function that ran last
    lIn,          \* its arguments
    lOut          \* its result, or the error it raised

varsShim == <<state, grad, training, optKind, mom, sgd, averages, nr_update,
              closures, blocks, lastOp, lastCall, lastTrace, stepSaw, quiet, finished,
              steps>>
varsSiamese == <<sClosures, children, fwdLog, bwdLog, sRet, sOp>>
varsLoss == <<lOp, lIn, lOut>>
vars == <<varsShim, varsSiamese, varsLoss>>

----------------------------------------------------------------------------
\* Bounds of the model
MaxSteps == 4      \* shim operations in one behaviour
MaxFwd == 2        \* begin_update calls in one behaviour
MaxDepth == 1      \* nesting depth of use_params blocks
MaxForward == 2    \* siamese forward calls in one behaviour
MaxRows == 2       \* rows of a scores or labels array
MaxSeqs == 2       \* length of a list of score or label sequences

Abs(i) == IF i < 0 THEN -i ELSE i
Sign(i) == IF i < 0 THEN -1 ELSE IF i > 0 THEN 1 ELSE 0

----------------------------------------------------------------------------
\* The wrapped module
ParamNames == {"w"}
BufNames == {"r"}
StateNames == ParamNames \cup BufNames
Inputs == {1, 2}
OutGrads == {-3, 2}

\* self._model(*inputs.args, **inputs.kwargs): the output
ModuleOutput(st, x) == st["w"] * x

\* self._model(...) : what the call does to the module's state_dict
ModuleCallState(st, train, x) == IF train THEN [st EXCEPT !["r"] = x] ELSE st

\* torch.autograd.backward(output, grad_tensors=grads): new accumulators
AutogradBackward(g, c, d) == [n \in ParamNames |-> g[n] + d * c.x]

\* convert_recursive(has grad, x.grad, inputs): the input gradient
InputGrad(c, d) == d * c.w

----------------------------------------------------------------------------
\* Keys of the optimizer's tables and of use_params' mapping
self_id == 1
OtherIds == {2}

\* f"pytorch_{self.id}_{name}"
Key(id, name) == [str |-> TRUE, tag |-> "pytorch", id |-> id, name |-> name]
\* a key that is not a string (thinc layers use (id, name) tuples)
TupleKey(id, name) == [str |-> FALSE, tag |-> "tuple", id |-> id, name |-> name]

\* hasattr(k, "startswith") and k.startswith(key_prefix)
HasPrefix(k, id) == k.str /\ k.tag = "pytorch" /\ k.id = id
\* k.replace(key_prefix, "")
StripPrefix(k) == k.name

ShimKeys == {Key(self_id, n) : n \in StateNames}
AllKeys == ShimKeys \cup {Key(i, "w") : i \in OtherIds} \cup {TupleKey(self_id, "w")}

----------------------------------------------------------------------------
\* predict without its trailing self._model.train()
predict_left_in_eval(st, train, x) ==
    [call |-> [training |-> FALSE, grad |-> FALSE],
     state |-> ModuleCallState(st, FALSE, x),
     training |-> FALSE,
     ret |-> ModuleOutput(st, x)]

\* PyTorchShim.predict: eval(), the call under no_grad(), train()
predict(st, train, x) ==
    [call |-> [training |-> FALSE, grad |-> FALSE],
     state |-> ModuleCallState(st, FALSE, x),
     training |-> TRUE,
     ret |-> ModuleOutput(st, x)]

\* PyTorchShim.begin_update: train(), the call; the closure captures inputs
begin_update(st, train, x) ==
    [call |-> [training |-> TRUE, grad |-> TRUE],
     state |-> ModuleCallState(st, TRUE, x),
     training |-> TRUE,
     ret |-> ModuleOutput(st, x),
     closure |-> [x |-> x, w |-> st["w"], used |-> 0]]

\* _create_optimizer with its last branch falling back to SGD
_create_optimizer_fallback(o) ==
    IF o.b1 # 0 /\ o.b2 # 0 THEN "adam" ELSE "sgd"

\* PyTorchShim._create_optimizer: the optimizer family, or "raise"
_create_optimizer(o) ==
    IF o.b1 # 0 /\ o.b2 # 0 THEN "adam"
    ELSE IF o.b2 = 0 THEN "sgd"
    ELSE "raise"

\* torch.nn.utils.clip_grad_norm_ over the module's one parameter
clip_grad_norm_(g, max_norm) ==
    [n \in ParamNames |-> IF Abs(g[n]) > max_norm THEN Sign(g[n]) * max_norm ELSE g[n]]

\* self._optimizer.step(): SGD with momentum b1, or Adam (sign of the first
\* moment); r is the record finish_update works on
OptimizerStep(kind, o, r) ==
    LET m2 == [n \in ParamNames |->
                 IF kind = "sgd" /\ o.b1 = 0 THEN r.mom[n]
                 ELSE ((o.b1 * r.mom[n]) \div 10) + r.grad[n]]
        d == [n \in ParamNames |->
                 IF kind = "sgd" THEN (IF o.b1 = 0 THEN r.grad[n] ELSE m2[n])
                 ELSE Sign(m2[n])]
    IN [r EXCEPT !.state = [n \in StateNames |->
                              IF n \in ParamNames THEN r.state[n] - d[n] ELSE r.state[n]],
                 !.mom = m2,
                 !.saw = r.grad]

\* zero_grad() that clears nothing
ZeroGrad_skipped(r) == r

\* self._optimizer.zero_grad()
ZeroGrad(r) == [r EXCEPT !.grad = [n \in ParamNames |-> 0]]

\* sgd.ops.update_averages(ema, weights, t): ema -= (1 - decay) * (ema - weights)
\* with decay = (1 + t) / (10 + t)
update_averages(ema, weights, t) == ema - ((9 * (ema - weights)) \div (10 + t))

\* _update_pytorch_averages counting a key only when it is first stored
_update_pytorch_averages_uncounted(r) ==
    IF r.averages.none THEN r
    ELSE LET have == DOMAIN r.averages.map
         IN [r EXCEPT
               !.averages = [none |-> FALSE,
                             map |-> [k \in have \cup ShimKeys |->
                                        IF k \notin ShimKeys THEN r.averages.map[k]
                                        ELSE IF k \in have
                                             THEN update_averages(r.averages.map[k],
                                                                  r.state[k.name],
                                                                  r.nr_update[k])
                                             ELSE r.state[k.name]]],
               !.nr_update = [k \in ShimKeys |-> IF k \in have THEN r.nr_update[k] ELSE 1]]

\* PyTorchShim._update_pytorch_averages
_update_pytorch_averages(r) ==
    IF r.averages.none THEN r
    ELSE LET have == DOMAIN r.averages.map
             bumped == [k \in ShimKeys |-> r.nr_update[k] + 1]
         IN [r EXCEPT
               !.averages = [none |-> FALSE,
                             map |-> [k \in have \cup ShimKeys |->
                                        IF k \notin ShimKeys THEN r.averages.map[k]
                                        ELSE IF k \in have
                                             THEN update_averages(r.averages.map[k],
                                                                  r.state[k.name], bumped[k])
                                             ELSE r.state[k.name]]],
               !.nr_update = [k \in ShimKeys |-> IF k \in have THEN bumped[k] ELSE 1]]

\* finish_update clearing the accumulators before the step
FinishUpdateProgram_zero_first(o) ==
    (IF o.max_grad_norm # 0 THEN <<"clip">> ELSE <<>>) \o <<"zero_grad", "step", "averages">>

\* The statements of PyTorchShim.finish_update after the optimizer exists,
\* in program order
FinishUpdateProgram(o) ==
    (IF o.max_grad_norm # 0 THEN <<"clip">> ELSE <<>>) \o <<"step", "zero_grad", "averages">>

\* One statement of finish_update
FinishUpdateStmt(stmt, kind, o, r) ==
    CASE stmt = "clip" -> [r EXCEPT !.grad = clip_grad_norm_(r.grad, o.max_grad_norm)]
      [] stmt = "step" -> OptimizerStep(kind, o, r)
      [] stmt = "zero_grad" -> ZeroGrad(r)
      [] stmt = "averages" -> _update_pytorch_averages(r)

RECURSIVE RunProgram(_, _, _, _)
RunProgram(prog, kind, o, r) ==
    IF prog = <<>> THEN r
    ELSE RunProgram(Tail(prog), kind, o, FinishUpdateStmt(Head(prog), kind, o, r))

\* PyTorchShim.finish_update: the record after the call; ok is FALSE when
\* _create_optimizer raised
finish_update(kind0, o, r) ==
    LET kind == IF kind0 = "none" THEN _create_optimizer(o) ELSE kind0
    IN IF kind = "raise"
       THEN [r EXCEPT !.ok = FALSE]
       ELSE [RunProgram(FinishUpdateProgram(o), kind, o, r)
               EXCEPT !.kind = kind, !.trace = FinishUpdateProgram(o)]

\* torch's Module.load_state_dict(sd), strict: entries present are copied
\* first, then missing keys raise
load_state_dict(st, sd) ==
    [ok |-> StateNames \subseteq DOMAIN sd,
     state |-> [n \in StateNames |-> IF n \in DOMAIN sd THEN sd[n] ELSE st[n]]]

\* use_params up to its yield: the state_dict built from params, the backup,
\* the load; entered is FALSE when the load raised
use_params_enter(st, params) ==
    LET mine == {k \in DOMAIN params : HasPrefix(k, self_id)}
        state_dict == [n \in {StripPrefix(k) : k \in mine} |->
                          params[CHOOSE k \in mine : StripPrefix(k) = n]]
        loaded == load_state_dict(st, state_dict)
    IN IF state_dict # <<>>
       THEN [entered |-> loaded.ok, state |-> loaded.state,
             block |-> [hasBackup |-> TRUE, backup |-> st, before |-> st]]
       ELSE [entered |-> TRUE, state |-> st,
             block |-> [hasBackup |-> FALSE, backup |-> st, before |-> st]]

\* use_params after its yield: the block returned (raised = FALSE) or the
\* block's exception was thrown into the generator at the yield
use_params_exit(st, block, raised) ==
    IF block.hasBackup /\ ~raised THEN load_state_dict(st, block.backup).state ELSE st

----------------------------------------------------------------------------
ZeroGrads == [n \in ParamNames |-> 0]
NoAverages == [none |-> TRUE, map |-> <<>>]
EmptyAverages == [none |-> FALSE, map |-> <<>>]
B1Values == {0, 9}
B2Values == {0, 9}
MaxGradNorms == {0, 2}
SubstituteValues == {7}

InitShim ==
    /\ state = [n \in StateNames |-> IF n \in ParamNames THEN 1 ELSE 0]
    /\ grad = ZeroGrads
    /\ training = TRUE
    /\ optKind = "none"
    /\ mom = ZeroGrads
    /\ sgd \in [b1 : B1Values, b2 : B2Values, max_grad_norm : MaxGradNorms]
    /\ averages \in {NoAverages, EmptyAverages}
    /\ nr_update = [k \in ShimKeys |-> 0]
    /\ closures = <<>>
    /\ blocks = <<>>
    /\ lastOp = "init"
    /\ lastCall = [training |-> TRUE, grad |-> TRUE]
    /\ lastTrace = <<>>
    /\ stepSaw = ZeroGrads
    /\ quiet = FALSE
    /\ finished = 0
    /\ steps = 0

Predict(x) ==
    /\ steps < MaxSteps
    /\ LET p == predict(state, training, x)
       IN /\ state' = p.state
          /\ training' = p.training
          /\ lastCall' = p.call
    /\ lastOp' = "predict"
    /\ steps' = steps + 1
    /\ UNCHANGED <<grad, optKind, mom, sgd, averages, nr_update, closures, blocks,
                   lastTrace, stepSaw, quiet, finished,
                   varsSiamese, varsLoss>>

BeginUpdate(x) ==
    /\ steps < MaxSteps
    /\ Len(closures) < MaxFwd
    /\ LET p == begin_update(state, training, x)
       IN /\ state' = p.state
          /\ training' = p.training
          /\ lastCall' = p.call
          /\ closures' = Append(closures, p.closure)
    /\ lastOp' = "begin_update"
    /\ quiet' = FALSE
    /\ steps' = steps + 1
    /\ UNCHANGED <<grad, optKind, mom, sgd, averages, nr_update, blocks, lastTrace, stepSaw,
                   finished, varsSiamese, varsLoss>>

\* backprop(output_grads), the closure begin_update call i returned.  A
\* second torch.autograd.backward over the same graph either raises (the
\* graph's saved tensors were freed) or accumulates again.
Backprop(i, d, raises) ==
    /\ steps < MaxSteps
    /\ i \in 1..Len(closures)
    /\ closures[i].used < 2
    /\ raises => closures[i].used > 0
    /\ quiet' = FALSE
    /\ IF raises
       THEN /\ lastOp' = "backprop_error"
            /\ UNCHANGED <<grad, closures>>
       ELSE /\ grad' = AutogradBackward(grad, closures[i], d)
            /\ closures' = [closures EXCEPT ![i].used = @ + 1]
            /\ lastOp' = "backprop"
    /\ steps' = steps + 1
    /\ UNCHANGED <<state, training, optKind, mom, sgd, averages, nr_update, blocks,
                   lastCall, lastTrace, stepSaw, finished, varsSiamese, varsLoss>>

FinishUpdate ==
    /\ steps < MaxSteps
    /\ LET r == finish_update(optKind, sgd,
                    [state |-> state, grad |-> grad, mom |-> mom, saw |-> stepSaw,
                     averages |-> averages, nr_update |-> nr_update,
                     kind |-> optKind, trace |-> <<>>, ok |-> TRUE])
       IN /\ state' = r.state
          /\ grad' = r.grad
          /\ mom' = r.mom
          /\ stepSaw' = r.saw
          /\ averages' = r.averages
          /\ nr_update' = r.nr_update
          /\ optKind' = r.kind
          /\ lastTrace' = r.trace
          /\ lastOp' = IF r.ok THEN "finish_update" ELSE "finish_update_error"
          /\ quiet' = (r.ok \/ quiet)
          /\ finished' = IF r.ok THEN finished + 1 ELSE finished
    /\ steps' = steps + 1
    /\ UNCHANGED <<training, sgd, closures, blocks, lastCall, varsSiamese, varsLoss>>

UseParamsEnter(params) ==
    /\ steps < MaxSteps
    /\ Len(blocks) < MaxDepth
    /\ LET e == use_params_enter(state, params)
       IN /\ state' = e.state
          /\ blocks' = IF e.entered THEN <<e.block>> \o blocks ELSE blocks
          /\ lastOp' = IF e.entered THEN "use_params_enter" ELSE "use_params_error"
    /\ steps' = steps + 1
    /\ UNCHANGED <<grad, training, optKind, mom, sgd, averages, nr_update, closures,
                   lastCall, lastTrace, stepSaw, quiet, finished,
                   varsSiamese, varsLoss>>

UseParamsLeave(raised) ==
    /\ steps < MaxSteps
    /\ blocks # <<>>
    /\ state' = use_params_exit(state, Head(blocks), raised)
    /\ blocks' = Tail(blocks)
    /\ lastOp' = IF raised THEN "use_params_raise" ELSE "use_params_exit"
    /\ steps' = steps + 1
    /\ UNCHANGED <<grad, training, optKind, mom, sgd, averages, nr_update, closures,
                   lastCall, lastTrace, stepSaw, quiet, finished,
                   varsSiamese, varsLoss>>

ParamsMappings ==
    UNION {[ks -> SubstituteValues] : ks \in SUBSET AllKeys}

NextShim ==
    \/ \E x \in Inputs : Predict(x)
    \/ \E x \in Inputs : BeginUpdate(x)
    \/ \E i \in 1..MaxFwd, d \in OutGrads, raises \in BOOLEAN : Backprop(i, d, raises)
    \/ FinishUpdate
    \/ \E params \in ParamsMappings : UseParamsEnter(params)
    \/ \E raised \in BOOLEAN : UseParamsLeave(raised)

----------------------------------------------------------------------------
\* The siamese combinator.  Its children are the layer  node(X) = X * X  and
\* the similarity  sim(v1, v2) = v1 * v2 ; a child closure is the record of
\* the forward call that produced it.
SiameseInputs == {1, 2}
SiameseGrads == {1, -2}

\* model.layers[0](X, is_train): output and closure (both children return a
\* closure whatever is_train is)
NodeCall(X, is_train) ==
    [out |-> X * X,
     bp |-> [layer |-> "node", x |-> X, v1 |-> 0, v2 |-> 0, used |-> 0]]

\* model.layers[1]((vec1, vec2), is_train): output and closure
SimilarityCall(vec1, vec2, is_train) ==
    [out |-> vec1 * vec2,
     bp |-> [layer |-> "similarity", x |-> 0, v1 |-> vec1, v2 |-> vec2, used |-> 0]]

\* a node closure: the gradient of X * X at the captured X
NodeBackprop(c, d) == 2 * c.x * d
\* the similarity closure: the gradients of v1 * v2 at the captured pair
SimilarityBackprop(c, d) == <<d * c.v2, d * c.v1>>

\* forward(model, X1_X2, is_train): the three child calls in program order;
\* n is the number of child closures that exist already
forward(n, X1, X2, is_train) ==
    LET c1 == NodeCall(X1, is_train)
        c2 == NodeCall(X2, is_train)
        c3 == SimilarityCall(c1.out, c2.out, is_train)
    IN [calls |-> <<c1.bp, c2.bp, c3.bp>>,
        output |-> c3.out,
        closure |-> [bp_vec1 |-> n + 1, bp_vec2 |-> n + 2, bp_output |-> n + 3]]

\* finish_update invoking the node closures in reverse forward order
finish_update_calls_reversed(ch, s, d_output) ==
    LET d_vecs == SimilarityBackprop(ch[s.bp_output], d_output)
    IN <<[closure |-> s.bp_output, arg |-> d_output, ret |-> d_vecs],
         [closure |-> s.bp_vec2, arg |-> d_vecs[2],
          ret |-> <<NodeBackprop(ch[s.bp_vec2], d_vecs[2])>>],
         [closure |-> s.bp_vec1, arg |-> d_vecs[1],
          ret |-> <<NodeBackprop(ch[s.bp_vec1], d_vecs[1])>>]>>

\* finish_update handing each branch the other branch's vector gradient
finish_update_calls_crossed(ch, s, d_output) ==
    LET d_vecs == SimilarityBackprop(ch[s.bp_output], d_output)
    IN <<[closure |-> s.bp_output, arg |-> d_output, ret |-> d_vecs],
         [closure |-> s.bp_vec1, arg |-> d_vecs[2],
          ret |-> <<NodeBackprop(ch[s.bp_vec1], d_vecs[2])>>],
         [closure |-> s.bp_vec2, arg |-> d_vecs[1],
          ret |-> <<NodeBackprop(ch[s.bp_vec2], d_vecs[1])>>]>>

\* finish_update(d_output), the closure forward returns: the child closures
\* it invokes, in program order, each with its argument and result
finish_update_calls(ch, s, d_output) ==
    LET d_vecs == SimilarityBackprop(ch[s.bp_output], d_output)
        d_vec1 == d_vecs[1]
        d_vec2 == d_vecs[2]
        d_input1 == NodeBackprop(ch[s.bp_vec1], d_vec1)
        d_input2 == NodeBackprop(ch[s.bp_vec2], d_vec2)
    IN <<[closure |-> s.bp_output, arg |-> d_output, ret |-> d_vecs],
         [closure |-> s.bp_vec1, arg |-> d_vec1, ret |-> <<d_input1>>],
         [closure |-> s.bp_vec2, arg |-> d_vec2, ret |-> <<d_input2>>]>>

\* what finish_update returns: (d_input1, d_input2)
finish_update_result(calls) == <<calls[2].ret[1], calls[3].ret[1]>>

InitSiamese ==
    /\ sClosures = <<>>
    /\ children = <<>>
    /\ fwdLog = <<>>
    /\ bwdLog = <<>>
    /\ sRet = <<>>
    /\ sOp = "init"

SiameseForward(X1, X2, is_train) ==
    /\ Len(sClosures) < MaxForward
    /\ LET f == forward(Len(children), X1, X2, is_train)
       IN /\ children' = children \o f.calls
          /\ fwdLog' = fwdLog \o <<f.closure.bp_vec1, f.closure.bp_vec2, f.closure.bp_output>>
          /\ sClosures' = Append(sClosures, f.closure)
          /\ sRet' = <<f.output>>
    /\ bwdLog' = <<>>
    /\ sOp' = "forward"
    /\ UNCHANGED <<varsShim, varsLoss>>

\* One invocation of the closure of siamese forward call s.  The closure has
\* no guard of its own; a child closure that was invoked before may raise
\* (raiseAt is its place in the program, 0 when none raises), which ends the
\* invocation there.
SiameseBackward(s, d_output, raiseAt) ==
    /\ s \in 1..Len(sClosures)
    /\ LET calls == finish_update_calls(children, sClosures[s], d_output)
           ran == IF raiseAt = 0 THEN calls ELSE SubSeq(calls, 1, raiseAt - 1)
       IN /\ \A k \in 1..Len(calls) : children[calls[k].closure].used < 2
          /\ raiseAt # 0 => children[calls[raiseAt].closure].used > 0
          /\ children' = [i \in 1..Len(children) |->
                            IF \E k \in 1..Len(ran) : ran[k].closure = i
                            THEN [children[i] EXCEPT !.used = @ + 1]
                            ELSE children[i]]
          /\ bwdLog' = ran
          /\ sRet' = IF raiseAt = 0 THEN finish_update_result(calls) ELSE <<>>
          /\ sOp' = IF raiseAt = 0 THEN "backward" ELSE "backward_error"
    /\ UNCHANGED <<sClosures, fwdLog, varsShim, varsLoss>>

NextSiamese ==
    \/ \E X1 \in SiameseInputs, X2 \in SiameseInputs, is_train \in BOOLEAN :
           SiameseForward(X1, X2, is_train)
    \/ \E s \in 1..MaxForward, d \in SiameseGrads, raiseAt \in 0..3 :
           SiameseBackward(s, d, raiseAt)

----------------------------------------------------------------------------
\* Loss functions.  An array is its ndim, its shape and its data; scores are
\* in tenths (8 is 0.8) and a result element is the fraction num / den.
Array1d(xs) == [ndim |-> 1, shape |-> <<Len(xs)>>, data |-> xs]
Array2d(rows, width) == [ndim |-> 2, shape |-> <<Len(rows), width>>, data |-> rows]

\* to_categorical(labels, n_classes): one one-hot row per class id
to_categorical(labels, n_classes) ==
    Array2d([i \in 1..Len(labels.data) |->
               [j \in 1..n_classes |-> IF labels.data[i] = j - 1 THEN 10 ELSE 0]],
            n_classes)

\* the difference returned undivided
Divide_skipped(difference, rows) == [num |-> difference, den |-> 1]

\* difference / scores.shape[0]
Divide(difference, rows) == [num |-> difference, den |-> rows]

\* categorical_crossentropy(scores, labels)
categorical_crossentropy(scores, labels) ==
    LET target == IF labels.ndim # scores.ndim
                  THEN to_categorical(labels, scores.shape[Len(scores.shape)])
                  ELSE labels
    IN IF scores.shape # target.shape
       THEN [err |-> "ValueError: mismatched shapes", val |-> <<>>]
       ELSE [err |-> "",
             val |-> [i \in 1..scores.shape[1] |->
                        [j \in 1..scores.shape[2] |->
                           Divide(scores.data[i][j] - target.data[i][j], scores.shape[1])]]]

\* sequence_categorical_crossentropy(scores, labels); an element's failure
\* ends the loop and is the call's failure
sequence_categorical_crossentropy(scores, labels) ==
    IF scores = <<>> THEN [err |-> "", val |-> <<>>]
    ELSE IF Len(scores) # Len(labels)
    THEN [err |-> "ValueError: same length", val |-> <<>>]
    ELSE LET each == [i \in 1..Len(scores) |-> categorical_crossentropy(scores[i], labels[i])]
             bad == {i \in 1..Len(scores) : each[i].err # ""}
         IN IF bad # {}
            THEN [err |-> each[CHOOSE i \in bad : \A k \in bad : i <= k].err, val |-> <<>>]
            ELSE [err |-> "", val |-> [i \in 1..Len(scores) |-> each[i].val]]

ScoreValues == {2, 8}
ClassIds == {0, 1}
SeqsUpTo(S, n) == UNION {[1..k -> S] : k \in 0..n}
\* scores: 1..MaxRows rows over two classes
ScoreArrays ==
    {Array2d(rows, 2) : rows \in UNION {[1..k -> [1..2 -> ScoreValues]] : k \in 1..MaxRows}}
\* labels: class ids (1-d), or one row of weights per example (2-d)
LabelArrays ==
    {Array1d(xs) : xs \in SeqsUpTo(ClassIds, MaxRows)}
    \cup {Array2d(rows, 2) : rows \in UNION {[1..k -> {<<10, 0>>, <<0, 10>>}] : k \in 1..MaxRows}}
\* the sequences a list holds: one-row scores; labels for one row or for two
ListScores == {a \in ScoreArrays : a.shape[1] = 1}
ListLabels == {Array1d(<<0>>), Array1d(<<1>>), Array1d(<<0, 1>>)}

\* no loss function has been called
IdleLoss ==
    /\ lOp = "init"
    /\ lIn = [fn |-> "none", scores |-> <<>>, labels |-> <<>>]
    /\ lOut = [err |-> "", val |-> <<>>]

\* the arguments of the one loss call of a behaviour
LossCalls ==
    [fn : {"categorical_crossentropy"}, scores : ScoreArrays, labels : LabelArrays]
    \cup [fn : {"sequence_categorical_crossentropy"},
          scores : SeqsUpTo(ListScores, MaxSeqs), labels : SeqsUpTo(ListLabels, MaxSeqs)]

InitLoss ==
    /\ lOp = "init"
    /\ lIn \in LossCalls
    /\ lOut = [err |-> "", val |-> <<>>]

CategoricalCrossentropy ==
    /\ lOp = "init"
    /\ lIn.fn = "categorical_crossentropy"
    /\ lOp' = "categorical_crossentropy"
    /\ lOut' = categorical_crossentropy(lIn.scores, lIn.labels)
    /\ UNCHANGED <<lIn, varsShim, varsSiamese>>

SequenceCategoricalCrossentropy ==
    /\ lOp = "init"
    /\ lIn.fn = "sequence_categorical_crossentropy"
    /\ lOp' = "sequence_categorical_crossentropy"
    /\ lOut' = sequence_categorical_crossentropy(lIn.scores, lIn.labels)
    /\ UNCHANGED <<lIn, varsShim, varsSiamese>>

NextLoss ==
    \/ CategoricalCrossentropy
    \/ SequenceCategoricalCrossentropy

\* the shim before any call, with one fixed optimizer
IdleShim ==
    /\ InitShim
    /\ sgd = [b1 |-> 9, b2 |-> 9, max_grad_norm |-> 0]
    /\ averages = NoAverages

InitOfShim == InitShim /\ InitSiamese /\ IdleLoss
InitOfSiamese == IdleShim /\ InitSiamese /\ IdleLoss
InitOfLoss == IdleShim /\ InitSiamese /\ InitLoss

SpecShim == InitOfShim /\ [][NextShim]_vars

SpecSiamese == InitOfSiamese /\ [][NextSiamese]_vars

SpecLoss == InitOfLoss /\ [][NextLoss]_vars

----------------------------------------------------------------------------
\* Properties

\* C1: whenever a use_params block that substituted parameters is left,
\* by returning or by raising, the module's state_dict is again what it was
\* immediately before use_params was entered.
C1_RestoredOnEveryExit ==
    [][(lastOp' \in {"use_params_exit", "use_params_raise"}
          /\ blocks # <<>> /\ Head(blocks).hasBackup)
        => state' = Head(blocks).before]_vars

\* C2 as stated: a finish_update that follows a finish_update with no
\* begin_update or backprop in between changes neither the parameters, nor
\* the gradient accumulators, nor averages, nor nr_update.
C2_SecondFinishUpdateIsNoOp ==
    [][(quiet /\ lastOp' = "finish_update")
        => /\ state' = state
           /\ grad' = grad
           /\ averages' = averages
           /\ nr_update' = nr_update]_vars

\* C2 amended: such a second finish_update leaves the gradient accumulators
\* as the first left them; it leaves averages and nr_update alone only when
\* the optimizer's averages field is None, and otherwise counts one more
\* update for every key of the module's state; it steps the native optimizer
\* again, which leaves the parameters alone when that optimizer is SGD
\* without momentum.
C2_SecondFinishUpdate ==
    [][(quiet /\ lastOp' = "finish_update")
        => /\ grad' = grad
           /\ averages.none => (averages' = averages /\ nr_update' = nr_update)
           /\ ~averages.none => \A k \in ShimKeys : nr_update'[k] = nr_update[k] + 1
           /\ (optKind' = "sgd" /\ sgd.b1 = 0) => state' = state]_vars

\* a second finish_update ran with averaging on, after gradients had been
\* accumulated and stepped
C2_Witness ==
    /\ lastOp = "finish_update"
    /\ ~averages.none
    /\ \A k \in ShimKeys : nr_update[k] = 2
    /\ stepSaw = ZeroGrads
    /\ mom # ZeroGrads

\* C3: predict calls the module in evaluation mode with gradient tracking
\* off, and when it returns the module is in training mode and neither its
\* state_dict nor its gradient accumulators have changed.
C3_PredictFrame ==
    [][lastOp' = "predict"
        => /\ lastCall' = [training |-> FALSE, grad |-> FALSE]
           /\ training' = TRUE
           /\ state' = state
           /\ grad' = grad]_vars

\* predict ran between a begin_update and that call's backprop, with
\* gradients of an earlier call waiting in the accumulators
C3_Witness ==
    /\ lastOp = "predict"
    /\ \E i \in 1..Len(closures) : closures[i].used = 0
    /\ grad # ZeroGrads

\* C4: no backward closure runs its backward computation a second time (a
\* second invocation is a stale-backward error instead).
C4_BackwardAtMostOnce ==
    \A i \in 1..Len(children) : children[i].used <= 1

\* the siamese call whose closure the last backward invoked
InvokedCall == CHOOSE s \in 1..Len(sClosures) : sClosures[s].bp_output = bwdLog[1].closure
\* the child closures the last backward invoked, in order
InvokedOrder == [k \in 1..Len(bwdLog) |-> bwdLog[k].closure]
\* the child forward calls of siamese call s, in order
ForwardOrder(s) == SubSeq(fwdLog, 3 * s - 2, 3 * s)

\* C5 as stated: backward invokes the child closures in the exact reverse
\* of the forward call order: similarity, node on input 2, node on input 1.
C5_ExactReverseOrder ==
    sOp = "backward"
    => InvokedOrder = <<ForwardOrder(InvokedCall)[3], ForwardOrder(InvokedCall)[2],
                        ForwardOrder(InvokedCall)[1]>>

\* C5 amended: backward invokes similarity's closure first and then the two
\* node closures in forward order: node on input 1, then node on input 2.
C5_SimilarityThenForwardOrder ==
    sOp = "backward"
    => InvokedOrder = <<ForwardOrder(InvokedCall)[3], ForwardOrder(InvokedCall)[1],
                        ForwardOrder(InvokedCall)[2]>>

\* a backward ran over a forward call whose two inputs differ
C5_Witness ==
    /\ sOp = "backward"
    /\ children[sClosures[InvokedCall].bp_vec1].x # children[sClosures[InvokedCall].bp_vec2].x

\* C6: without a native optimizer, finish_update builds Adam when b1 and b2
\* are both non-zero, SGD when b2 is zero, and fails otherwise; a failed call
\* steps nothing, clips and clears nothing, updates no averages and leaves
\* the shim without a native optimizer.
C6_OptimizerChoice ==
    [][(optKind = "none" /\ lastOp' \in {"finish_update", "finish_update_error"})
        => /\ (sgd.b1 # 0 /\ sgd.b2 # 0) => (lastOp' = "finish_update" /\ optKind' = "adam")
           /\ sgd.b2 = 0 => (lastOp' = "finish_update" /\ optKind' = "sgd")
           /\ (sgd.b1 = 0 /\ sgd.b2 # 0)
                => /\ lastOp' = "finish_update_error"
                   /\ optKind' = "none"
                   /\ UNCHANGED <<state, grad, mom, averages, nr_update, stepSaw>>]_vars

\* finish_update failed on b1 = 0, b2 # 0 with gradients accumulated, and
\* they are still there
C6_Witness ==
    /\ lastOp = "finish_update_error"
    /\ sgd.b1 = 0 /\ sgd.b2 # 0 /\ sgd.max_grad_norm # 0
    /\ \E n \in ParamNames : Abs(grad[n]) > sgd.max_grad_norm

\* C7: a successful finish_update clips (only with a non-zero
\* max_grad_norm), then steps, then clears the accumulators, then updates
\* the averages: the step reads the accumulated, clipped gradients, every
\* accumulator is cleared afterwards, and a new average is the stepped value.
C7_FinishUpdateOrder ==
    [][lastOp' = "finish_update"
        => /\ lastTrace' = IF sgd.max_grad_norm # 0
                           THEN <<"clip", "step", "zero_grad", "averages">>
                           ELSE <<"step", "zero_grad", "averages">>
           /\ stepSaw' = [n \in ParamNames |->
                            IF sgd.max_grad_norm # 0 /\ Abs(grad[n]) > sgd.max_grad_norm
                            THEN Sign(grad[n]) * sgd.max_grad_norm
                            ELSE grad[n]]
           /\ \A n \in ParamNames : grad'[n] = 0
           /\ \A k \in ShimKeys :
                (~averages.none /\ k \notin DOMAIN averages.map)
                   => averages'.map[k] = state'[k.name]]_vars

\* a finish_update clipped the gradients of two backward passes before
\* stepping, and cleared them
C7_Witness ==
    /\ lastOp = "finish_update"
    /\ sgd.max_grad_norm # 0
    /\ \E i \in 1..Len(closures) : closures[i].used = 2
    /\ stepSaw = [n \in ParamNames |-> -sgd.max_grad_norm]
    /\ grad = ZeroGrads

\* C8: sequence_categorical_crossentropy fails whenever the two lists differ
\* in length, an empty list included; with equal lengths (and no element
\* failing) it returns one gradient per element, in order.
C8_FailsOnAnyLengthMismatch ==
    lOp = "sequence_categorical_crossentropy"
    => /\ Len(lIn.scores) # Len(lIn.labels) => lOut.err # ""
       /\ (Len(lIn.scores) = Len(lIn.labels) /\ lOut.err = "")
            => /\ Len(lOut.val) = Len(lIn.scores)
               /\ \A i \in 1..Len(lIn.scores) :
                    lOut.val[i] = categorical_crossentropy(lIn.scores[i], lIn.labels[i]).val

\* the entry of the last siamese backward for child closure c
EntryOf(c) == bwdLog[CHOOSE k \in 1..Len(bwdLog) : bwdLog[k].closure = c]
TimesInvoked(c) == Cardinality({k \in 1..Len(bwdLog) : bwdLog[k].closure = c})

\* C9: one siamese backward invokes similarity's closure once on d_output,
\* passes the first component of its result to the closure of node's call on
\* input 1 and the second to the closure of node's call on input 2, invokes
\* each of those once, and returns (input-1 gradient, input-2 gradient).
C9_PerBranchRouting ==
    sOp = "backward"
    => LET s == sClosures[InvokedCall]
           d_vecs == SimilarityBackprop(children[s.bp_output], EntryOf(s.bp_output).arg)
       IN /\ Len(bwdLog) = 3
          /\ TimesInvoked(s.bp_output) = 1
          /\ TimesInvoked(s.bp_vec1) = 1
          /\ TimesInvoked(s.bp_vec2) = 1
          /\ EntryOf(s.bp_vec1).arg = d_vecs[1]
          /\ EntryOf(s.bp_vec2).arg = d_vecs[2]
          /\ sRet = <<NodeBackprop(children[s.bp_vec1], d_vecs[1]),
                      NodeBackprop(children[s.bp_vec2], d_vecs[2])>>

\* a backward returned two different branch gradients
C9_Witness ==
    /\ sOp = "backward"
    /\ Len(sRet) = 2
    /\ sRet[1] # sRet[2]
    /\ EntryOf(sClosures[InvokedCall].bp_vec1).arg # EntryOf(sClosures[InvokedCall].bp_vec2).arg

\* the one-hot row of class id c over n classes, in tenths
OneHot(c, n) == [j \in 1..n |-> IF j = c + 1 THEN 10 ELSE 0]

\* C10: categorical_crossentropy turns labels of fewer dimensions than
\* scores into one-hot rows over scores' last-axis width, fails when the
\* target's shape still differs from scores' shape, and otherwise returns
\* (scores - target) / number of rows, elementwise; scores [[0.2, 0.8]] with
\* labels [1] gives [[0.2, -0.2]].
C10_CategoricalCrossentropy ==
    lOp = "categorical_crossentropy"
    => LET scores == lIn.scores
           labels == lIn.labels
           rows == scores.shape[1]
           width == scores.shape[2]
           targetShape == IF labels.ndim < scores.ndim
                          THEN <<Len(labels.data), width>> ELSE labels.shape
           target(i) == IF labels.ndim < scores.ndim
                        THEN OneHot(labels.data[i], width) ELSE labels.data[i]
       IN /\ targetShape # scores.shape => lOut.err # ""
          /\ targetShape = scores.shape
               => /\ lOut.err = ""
                  /\ Len(lOut.val) = rows
                  /\ \A i \in 1..rows : \A j \in 1..width :
                       /\ lOut.val[i][j].den # 0
                       /\ lOut.val[i][j].num * rows
                            = (scores.data[i][j] - target(i)[j]) * lOut.val[i][j].den
          /\ (scores = Array2d(<<<<2, 8>>>>, 2) /\ labels = Array1d(<<1>>))
               => /\ lOut.val[1][1].num = 2 * lOut.val[1][1].den
                  /\ lOut.val[1][2].num = (-2) * lOut.val[1][2].den

\* class ids were turned into one-hot rows for a batch of two rows
C10_Witness ==
    /\ lOp = "categorical_crossentropy"
    /\ lIn.labels.ndim = 1
    /\ lIn.scores.shape[1] = 2
    /\ lOut.err = ""
    /\ lOut.val[1][1] # lOut.val[2][1]

\* C11: with the optimizer's averages field None, finish_update touches
\* neither averages nor nr_update; otherwise, after n >= 1 finish_update
\* calls have returned, averages holds exactly the keys of the module's
\* state entries and nr_update of each is n: the first call stores the
\* parameter and a count of 1, every later call adds one to the count and
\* updates the running average with the new count.
C11_AveragingBookkeeping ==
    /\ [](averages.none
            => (averages = NoAverages /\ \A k \in ShimKeys : nr_update[k] = 0))
    /\ []((~averages.none /\ finished >= 1)
            => /\ DOMAIN averages.map = ShimKeys
               /\ \A k \in ShimKeys : nr_update[k] = finished)
    /\ [][(lastOp' = "finish_update" /\ ~averages.none)
           => \A k \in ShimKeys :
                IF k \in DOMAIN averages.map
                THEN /\ nr_update'[k] = nr_update[k] + 1
                     /\ averages'.map[k] = update_averages(averages.map[k], state'[k.name],
                                                           nr_update[k] + 1)
                ELSE /\ nr_update'[k] = 1
                     /\ averages'.map[k] = state'[k.name]]_vars

\* two finish_update calls have returned with averaging on, the second
\* after the parameter had moved, so the running average lags the parameter
C11_Witness ==
    /\ lastOp = "finish_update"
    /\ ~averages.none
    /\ finished = 2
    /\ \A k \in ShimKeys : nr_update[k] = 2
    /\ averages.map[Key(self_id, "w")] # state["w"]

====
